---- MODULE Spec2Model ----
(***************************************************************************)
(* ChatAIClient (src/unnamed/part_000, the repository's client.ts) and its *)
(* types (src/src/types.ts).                                               *)
(*                                                                         *)
(* Text is a sequence of one-character strings; a byte stream is a         *)
(* sequence of bytes, where an ASCII byte is written as its character and  *)
(* the two bytes of a two-byte UTF-8 character are LEAD and CONT.          *)
(***************************************************************************)
EXTENDS Integers, Sequences, FiniteSets, TLC

\* ------------------------------------------------------------------ bounds

\* Most lines of one input byte stream.
MaxLines == 2

\* Most fields one options bag supplies.
MaxSupplied == 2

\* ------------------------------------------------------- bytes and text

NL == "\n"
CR == "\r"
SP == " "
QUOTE == "\""
\* 0xC3, the first byte of a two-byte UTF-8 character.
LEAD == "0xC3"
\* 0xA9, a UTF-8 continuation byte.
CONT == "0xA9"
\* The character 0xC3 0xA9 decodes to.
EACUTE == "U+00E9"
\* The replacement character an ill-formed byte sequence decodes to.
FFFD == "U+FFFD"

\* What String.prototype.trim strips, among the characters of the model.
TrimWS == {SP, CR, NL, "\t"}
\* JSON's insignificant whitespace.
JSONWS == {SP, CR, NL, "\t"}
Digits == {"0", "1", "7"}

\* TextDecoder.decode(chunk, {stream: true}) of a UTF-8 decoder that holds a
\* lead byte (pend) from the previous call: the text decoded and the decoder's
\* state afterwards. An incomplete character at the end of the chunk is held,
\* not emitted.
RECURSIVE DecodeFrom(_, _, _)
DecodeFrom(bytes, pend, acc) ==
  IF bytes = <<>> THEN [text |-> acc, pending |-> pend]
  ELSE LET b == Head(bytes) IN
    IF pend
      THEN IF b = CONT
             THEN DecodeFrom(Tail(bytes), FALSE, Append(acc, EACUTE))
             ELSE DecodeFrom(bytes, FALSE, Append(acc, FFFD))
      ELSE IF b = LEAD THEN DecodeFrom(Tail(bytes), TRUE, acc)
      ELSE IF b = CONT THEN DecodeFrom(Tail(bytes), FALSE, Append(acc, FFFD))
      ELSE DecodeFrom(Tail(bytes), FALSE, Append(acc, b))

\* A decoder without {stream: true}: every call starts afresh and flushes, so
\* a character cut by the chunk boundary becomes replacement characters.
DecodeNoStream(bytes, pend) ==
  LET r == DecodeFrom(bytes, FALSE, <<>>) IN
  [text |-> IF r.pending THEN Append(r.text, FFFD) ELSE r.text, pending |-> FALSE]

Decode(bytes, pend) == DecodeFrom(bytes, pend, <<>>)

\* String.prototype.split("\n"): the segments between newlines, at least one.
RECURSIVE SplitFrom(_, _, _)
SplitFrom(text, cur, acc) ==
  IF text = <<>> THEN Append(acc, cur)
  ELSE IF Head(text) = NL THEN SplitFrom(Tail(text), <<>>, Append(acc, cur))
  ELSE SplitFrom(Tail(text), Append(cur, Head(text)), acc)

Split(text) == SplitFrom(text, <<>>, <<>>)

\* String.prototype.trim.
RECURSIVE TrimLeft(_)
TrimLeft(s) ==
  IF s # <<>> /\ Head(s) \in TrimWS THEN TrimLeft(Tail(s)) ELSE s

RECURSIVE TrimRight(_)
TrimRight(s) ==
  IF s # <<>> /\ s[Len(s)] \in TrimWS THEN TrimRight(SubSeq(s, 1, Len(s) - 1)) ELSE s

Trim(s) == TrimRight(TrimLeft(s))

\* line.startsWith("data: ")
DataPrefix == <<"d", "a", "t", "a", ":", SP>>

StartsWith(s, p) == Len(s) >= Len(p) /\ SubSeq(s, 1, Len(p)) = p

\* line.slice(6)
SliceStart == 6

Slice(s) == SubSeq(s, SliceStart + 1, Len(s))

\* ------------------------------------------------------------ JSON.parse

\* JSON.parse on the texts of the model: objects with string keys, strings
\* without escapes, unsigned integers, whitespace between tokens. The value
\* is written as its token sequence without the insignificant whitespace, so
\* two texts of one value parse to equal values. ok = FALSE is a SyntaxError.
ParseFail == [ok |-> FALSE, next |-> 0, val |-> <<>>]

RECURSIVE SkipWS(_, _)
SkipWS(s, i) ==
  IF i <= Len(s) /\ s[i] \in JSONWS THEN SkipWS(s, i + 1) ELSE i

\* The string whose opening quote is just before position i.
RECURSIVE ScanString(_, _, _)
ScanString(s, i, acc) ==
  IF i > Len(s) THEN ParseFail
  ELSE IF s[i] = QUOTE
    THEN [ok |-> TRUE, next |-> i + 1, val |-> <<QUOTE>> \o acc \o <<QUOTE>>]
  ELSE IF s[i] \in {CR, NL, "\t"} THEN ParseFail
  ELSE ScanString(s, i + 1, Append(acc, s[i]))

RECURSIVE ScanDigits(_, _, _)
ScanDigits(s, i, acc) ==
  IF i <= Len(s) /\ s[i] \in Digits
    THEN ScanDigits(s, i + 1, Append(acc, s[i]))
    ELSE [ok |-> TRUE, next |-> i, val |-> acc]

\* A number starting at position i: "0" alone, or digits without a leading 0.
ParseNumber(s, i) ==
  IF s[i] = "0"
    THEN [ok |-> TRUE, next |-> i + 1, val |-> <<"0">>]
    ELSE ScanDigits(s, i, <<>>)

RECURSIVE ParseValue(_, _)
RECURSIVE ParseMembers(_, _, _)

ParseValue(s, i0) ==
  LET i == SkipWS(s, i0) IN
  IF i > Len(s) THEN ParseFail
  ELSE IF s[i] = "{"
    THEN LET j == SkipWS(s, i + 1) IN
         IF j <= Len(s) /\ s[j] = "}"
           THEN [ok |-> TRUE, next |-> j + 1, val |-> <<"{", "}">>]
           ELSE ParseMembers(s, j, <<"{">>)
  ELSE IF s[i] = QUOTE THEN ScanString(s, i + 1, <<>>)
  ELSE IF s[i] \in Digits THEN ParseNumber(s, i)
  ELSE ParseFail

\* The members of an object from position i0 (a key is expected there).
ParseMembers(s, i0, acc) ==
  LET i == SkipWS(s, i0) IN
  IF i > Len(s) \/ s[i] # QUOTE THEN ParseFail
  ELSE LET k == ScanString(s, i + 1, <<>>) IN
    IF ~k.ok THEN ParseFail
    ELSE LET c == SkipWS(s, k.next) IN
      IF c > Len(s) \/ s[c] # ":" THEN ParseFail
      ELSE LET v == ParseValue(s, c + 1) IN
        IF ~v.ok THEN ParseFail
        ELSE LET m == SkipWS(s, v.next)
                 sofar == acc \o k.val \o <<":">> \o v.val
             IN
          IF m > Len(s) THEN ParseFail
          ELSE IF s[m] = "," THEN ParseMembers(s, m + 1, Append(sofar, ","))
          ELSE IF s[m] = "}"
            THEN [ok |-> TRUE, next |-> m + 1, val |-> Append(sofar, "}")]
          ELSE ParseFail

JSONParse(s) ==
  LET v == ParseValue(s, 1) IN
  IF v.ok /\ SkipWS(s, v.next) > Len(s)
    THEN [ok |-> TRUE, val |-> v.val]
    ELSE [ok |-> FALSE, val |-> <<>>]

\* ---------------------------------------------------------- parseSSE, a line

\* A lenient variant: a payload that does not parse is yielded as its raw text.
HandleLineRaw(line) ==
  IF StartsWith(line, DataPrefix)
    THEN LET data == Trim(Slice(line)) IN
         IF data # <<>>
           THEN LET parsed == JSONParse(data) IN
                IF parsed.ok THEN <<parsed.val>> ELSE <<data>>
           ELSE <<>>
    ELSE <<>>

\* A loose variant: `data:` is a prefix with or without the space after it.
HandleLineLoose(line) ==
  IF StartsWith(line, <<"d", "a", "t", "a", ":">>)
    THEN LET data == Trim(SubSeq(line, 6, Len(line))) IN
         IF data # <<>>
           THEN LET parsed == JSONParse(data) IN
                IF parsed.ok THEN <<parsed.val>> ELSE <<>>
           ELSE <<>>
    ELSE <<>>

\* The body of `for (const line of lines)`: what one line yields, <<>> or one
\* chunk. The warning of the catch branch is a log line, not state.
HandleLine(line) ==
  IF StartsWith(line, DataPrefix)
    THEN LET data == Trim(Slice(line)) IN
         IF data # <<>>
           THEN LET parsed == JSONParse(data) IN
                IF parsed.ok THEN <<parsed.val>> ELSE <<>>
           ELSE <<>>
    ELSE <<>>

\* A variant that leaves the loop over the lines at a chunk of type "done".
RECURSIVE DrainToDone(_)
DrainToDone(lines) ==
  IF lines = <<>> THEN [found |-> FALSE, chunk |-> <<>>, rest |-> <<>>]
  ELSE LET y == HandleLine(Head(lines)) IN
    IF y # <<>>
      THEN [found |-> TRUE, chunk |-> y[1],
            rest |-> IF y[1] = <<"{", QUOTE, "t", "y", "p", "e", QUOTE, ":",
                                 QUOTE, "d", "o", "n", "e", QUOTE, "}">>
                       THEN <<>> ELSE Tail(lines)]
      ELSE DrainToDone(Tail(lines))

\* The lines from the front of `lines` that yield nothing are passed over; the
\* generator runs to its next yield (found) or to the end of the lines.
RECURSIVE Drain(_)
Drain(lines) ==
  IF lines = <<>> THEN [found |-> FALSE, chunk |-> <<>>, rest |-> <<>>]
  ELSE LET y == HandleLine(Head(lines)) IN
    IF y # <<>>
      THEN [found |-> TRUE, chunk |-> y[1], rest |-> Tail(lines)]
      ELSE Drain(Tail(lines))


\* ---------------------------------------------------- values and errors

\* A JavaScript value of an option or of a body field.
Undefined == [t |-> "undefined", s |-> "", n |-> 0]
NaN == [t |-> "nan", s |-> "", n |-> 0]
Null == [t |-> "null", s |-> "", n |-> 0]
EmptyObject == [t |-> "object", s |-> "{}", n |-> 0]
Str(s) == [t |-> "string", s |-> s, n |-> 0]
Num(n) == [t |-> "number", s |-> "", n |-> n]
Bool(b) == [t |-> "boolean", s |-> IF b THEN "true" ELSE "false", n |-> 0]

\* ToBoolean: what `v && ...` tests.
Truthy(v) ==
  CASE v.t = "string" -> v.s # ""
    [] v.t = "number" -> v.n # 0
    [] v.t = "boolean" -> v.s = "true"
    [] v.t = "object" -> TRUE
    [] OTHER -> FALSE

\* new ChatAIError(message, status?, response?); an absent status or response
\* is the empty sequence.
MkChatAIError(message, status, response) ==
  [name |-> "ChatAIError", message |-> message, status |-> status, response |-> response]

\* An exception of the runtime or of node-fetch, which is no ChatAIError.
Raw(name, message) ==
  [name |-> name, message |-> <<message>>, status |-> <<>>, response |-> <<>>]

NoError == [name |-> "none", message |-> <<>>, status |-> <<>>, response |-> <<>>]

\* A catch block that wraps whatever it catches.
CatchWrapAll(e) ==
  MkChatAIError(<<"Network error: ">> \o e.message, <<>>, <<>>)

\* A catch block that rethrows whatever it catches.
CatchRethrow(e) == e

\* The catch block of chat and of chatStream: what the caller receives when
\* e is thrown inside the try.
Catch(e) ==
  IF e.name = "ChatAIError"
    THEN e
    ELSE MkChatAIError(<<"Network error: ">> \o e.message, <<>>, <<>>)

\* response.ok taken as "below 400".
IsOkBelow400(status) == status >= 200 /\ status < 400

\* response.ok
IsOk(status) == status >= 200 /\ status <= 299

\* The error of `if (!response.ok)`.
HttpError(status, errorText) ==
  MkChatAIError(<<"API request failed: ", ToString(status), " - ", errorText>>,
                <<status>>, <<errorText>>)

NoBodyError == MkChatAIError(<<"No response body received">>, <<>>, <<>>)

\* ------------------------------------------------------ response bodies

T_Exploded == "server exploded"
T_RateLimited == "{\"error\":true,\"response\":\"rate limited\"}"
T_Hello == "{\"error\":false,\"sessionId\":\"s1\",\"response\":\"hello\"}"
T_ErrorOnly == "{\"error\":true}"
T_NoFlag == "{\"sessionId\":\"s1\",\"response\":\"hi\"}"
T_Null == "null"
T_Empty == ""

BodyTexts == {T_Exploded, T_RateLimited, T_Hello, T_ErrorOnly, T_NoFlag, T_Null, T_Empty}

Payload(isNull, error, sessionId, response) ==
  [isNull |-> isNull, error |-> error, sessionId |-> sessionId, response |-> response]

\* response.json() on the body texts of the model: ok = FALSE is a SyntaxError;
\* an absent member is Undefined.
JsonOf(text) ==
  CASE text = T_RateLimited ->
         [ok |-> TRUE, data |-> Payload(FALSE, Bool(TRUE), Undefined, Str("rate limited"))]
    [] text = T_Hello ->
         [ok |-> TRUE, data |-> Payload(FALSE, Bool(FALSE), Str("s1"), Str("hello"))]
    [] text = T_ErrorOnly ->
         [ok |-> TRUE, data |-> Payload(FALSE, Bool(TRUE), Undefined, Undefined)]
    [] text = T_NoFlag ->
         [ok |-> TRUE, data |-> Payload(FALSE, Undefined, Str("s1"), Str("hi"))]
    [] text = T_Null ->
         [ok |-> TRUE, data |-> Payload(TRUE, Undefined, Undefined, Undefined)]
    [] OTHER ->
         [ok |-> FALSE, data |-> Payload(TRUE, Undefined, Undefined, Undefined)]

\* `data.response` left out of the message.
AppErrorUnknown(data) ==
  MkChatAIError(<<"API returned error: ", "Unknown error">>, <<>>, <<>>)

\* The error of `if (data.error)`: `data.response || "Unknown error"`.
AppError(data) ==
  MkChatAIError(
    <<"API returned error: ",
      IF Truthy(data.response) THEN data.response.s ELSE "Unknown error">>,
    <<>>, <<>>)

\* ------------------------------------------------------ the request body

OptFields == {"sessionId", "model", "temperature", "maxTokens", "context", "metadata"}

\* The values a caller supplies for a field, Undefined being "not supplied".
Supplied(f) ==
  CASE f = "temperature" -> {Num(0), Num(1), NaN}
    [] f = "maxTokens" -> {Num(0), Num(1)}
    [] f = "metadata" -> {EmptyObject}
    [] OTHER -> {Str(""), Str("v")}

OptionBags ==
  { o \in [OptFields -> UNION { Supplied(f) \cup {Undefined} : f \in OptFields }] :
      /\ \A f \in OptFields : o[f] \in Supplied(f) \cup {Undefined}
      /\ Cardinality({f \in OptFields : o[f] # Undefined}) <= MaxSupplied }

SuppliedFields(o) == {f \in OptFields : o[f] # Undefined}

\* Whether the object literal of requestBody spreads field f of the options in.
Included(f, o) ==
  CASE f = "temperature" -> o[f] # Undefined
    [] OTHER -> Truthy(o[f])

\* requestBody of chat (stream = FALSE) and of chatStream (stream = TRUE).
BuildBody(key, stream, q, o) ==
  LET present == {"apikey", "query", "stream"} \cup {f \in OptFields : Included(f, o)}
  IN [f \in present |->
        CASE f = "apikey" -> Str(key)
          [] f = "query" -> Str(q)
          [] f = "stream" -> Bool(stream)
          [] OTHER -> o[f]]

\* JSON.stringify(requestBody): a member whose value is undefined is left out,
\* NaN is written as null.
Stringify(b) ==
  [f \in {g \in DOMAIN b : b[g] # Undefined} |-> IF b[f] = NaN THEN Null ELSE b[f]]

\* The request fetch is called with.
Request(key, stream, q, o) ==
  [url |-> <<"https://chatai.abstraxn.com/api/v1/chat/?apikey=", key>>,
   method |-> "POST",
   accept |-> IF stream THEN "text/event-stream" ELSE "application/json",
   body |-> Stringify(BuildBody(key, stream, q, o))]

\* ------------------------------------------------------------------ state

VARIABLES
  config,     \* config.apiKey as given to the constructor: <<>> when missing
  apiKey,     \* this.apiKey
  method,     \* the method called: "chat", "chatStream", or "parseSSE" alone
  query,      \* the query argument
  options,    \* the options argument
  server,     \* what the transport will answer
  sent,       \* the requests given to fetch
  result,     \* chat's return value, <<>> before it returns
  err,        \* the error thrown to the caller, NoError before any
  input,      \* the bytes the server sends as the response body, all of them
  body,       \* response.body: the bytes not yet delivered
  bodyState,  \* "none", "open", "ended", "destroyed" or "errored"
  pending,    \* decoder: TRUE when the TextDecoder holds a lead byte
  buffer,     \* parseSSE's buffer
  lines,      \* the lines the `for (const line of lines)` loop has still to visit
  out,        \* the chunks the generator has yielded to the consumer
  pc,         \* where the call stands
  other       \* the arguments' and locals' values of a second, suspended call

vars == <<config, apiKey, method, query, options, server, sent, result, err,
          input, body, bodyState, pending, buffer, lines, out, pc, other>>

\* What no step of the running call changes: the client, the arguments, the
\* transport's answer, and the suspended call.
callVars == <<config, apiKey, method, query, options, server, other>>

\* ------------------------------------------------------- the inputs

\* The lines an input is made of.
LineSet ==
  { <<"d", "a", "t", "a", ":", SP, "{", QUOTE, "t", QUOTE, ":", "1", "}">>,
    <<"d", "a", "t", "a", ":", SP, "x">>,
    <<"d", "a", "t", "a", ":", SP>>,
    <<>>,
    <<"d", "a", "t", "a", ":", "7">>,
    <<"d", "a", "t", "a", ":", SP, SP, "1", SP, CR>>,
    <<"d", "a", "t", "a", ":", SP, QUOTE, LEAD, CONT, QUOTE>>,
    <<"d", "a", "t", "a", ":", SP, "7", LEAD>> }

\* The lines ls with a newline after each, but after the last only if terminated.
RECURSIVE Join(_, _)
Join(ls, terminated) ==
  IF ls = <<>> THEN <<>>
  ELSE IF Len(ls) = 1 THEN (IF terminated THEN Append(ls[1], NL) ELSE ls[1])
  ELSE Append(ls[1], NL) \o Join(Tail(ls), terminated)

Inputs ==
  { Join(ls, t) : ls \in UNION { [1..n -> LineSet] : n \in 0..MaxLines },
                  t \in BOOLEAN }

\* The bodies of the streaming responses of a whole call.
Line7 == <<"d", "a", "t", "a", ":", SP, "7">>
LineX == <<"d", "a", "t", "a", ":", SP, "x">>

StreamInputs ==
  { <<>>,
    Join(<<LineX>>, TRUE),
    Join(<<Line7, Line7>>, TRUE),
    Join(<<Line7, LineX, Line7>>, FALSE) }

Statuses == {200, 299, 300, 500}

\* What the transport answers: fetch rejects, or a response with a status; the
\* body is `text` (chat, and every non-2xx response) or the bytes `input`
\* (chatStream); reading the body may fail; the body may be absent.
Answers ==
  [reject : BOOLEAN, status : Statuses, text : BodyTexts,
   readFails : BOOLEAN, hasBody : BOOLEAN]

\* ------------------------------------------------------------- parseSSE

\* `buffer = lines.pop() || ""`: the last segment, the text after the last newline.
NewBuffer(ls) == ls[Len(ls)]

\* `lines` after the pop: the segments a newline ended.
CompleteLines(ls) == SubSeq(ls, 1, Len(ls) - 1)

NoAnswer ==
  [reject |-> FALSE, status |-> 200, text |-> T_Empty, readFails |-> FALSE, hasBody |-> TRUE]

NoOptions == [f \in OptFields |-> Undefined]

\* No second call is in flight.
NoCall ==
  [sent |-> <<>>, err |-> NoError, input |-> <<>>, body |-> <<>>,
   bodyState |-> "none", pending |-> FALSE, buffer |-> <<>>, lines |-> <<>>,
   out |-> <<>>, pc |-> "absent"]

\* parseSSE has been called on response.body and awaits its first chunk.
InitSSE ==
  /\ config = <<"k">>
  /\ apiKey = "k"
  /\ method = "parseSSE"
  /\ query = ""
  /\ options = NoOptions
  /\ server = NoAnswer
  /\ sent = <<>>
  /\ result = <<>>
  /\ err = NoError
  /\ input \in Inputs
  /\ body = input
  /\ bodyState = "open"
  /\ pending = FALSE
  /\ buffer = <<>>
  /\ lines = <<>>
  /\ out = <<>>
  /\ pc = "await"
  /\ other = NoCall

\* The generator runs from `for (const line of lines)` over ls to its next
\* yield; with no yield left it falls to `after`.
RunLines(ls, after) ==
  LET dr == Drain(ls) IN
  IF dr.found
    THEN /\ out' = Append(out, dr.chunk)
         /\ lines' = dr.rest
         /\ pc' = IF after = "await" THEN "yielded" ELSE "flushYielded"
    ELSE /\ out' = out
         /\ lines' = <<>>
         /\ pc' = after

\* `for await (const chunk of body)` receives the next k bytes.
Arrive(k) ==
  /\ pc = "await"
  /\ bodyState = "open"
  /\ k \in 1..Len(body)
  /\ LET d == Decode(SubSeq(body, 1, k), pending)
         ls == Split(buffer \o d.text)
     IN /\ pending' = d.pending
        /\ buffer' = NewBuffer(ls)
        /\ RunLines(CompleteLines(ls), "await")
  /\ body' = SubSeq(body, k + 1, Len(body))
  /\ UNCHANGED <<callVars, sent, result, err, input, bodyState>>

\* The consumer calls next() on a generator suspended at `yield parsed`.
Resume ==
  /\ pc \in {"yielded", "flushYielded"}
  /\ RunLines(lines, IF pc = "yielded" THEN "await" ELSE "done")
  /\ UNCHANGED <<callVars, sent, result, err, input, body, bodyState, pending, buffer>>

\* The source stream ends: the loop is left and the rest of the buffer processed.
End ==
  /\ pc = "await"
  /\ bodyState = "open"
  /\ body = <<>>
  /\ bodyState' = "ended"
  /\ IF Trim(buffer) # <<>>
       THEN RunLines(Split(buffer), "done")
       ELSE /\ pc' = "done"
            /\ UNCHANGED <<out, lines>>
  /\ UNCHANGED <<callVars, sent, result, err, input, body, pending, buffer>>

NextSSE ==
  \/ \E k \in 1..Len(body) : Arrive(k)
  \/ Resume
  \/ End

SpecSSE == InitSSE /\ [][NextSSE]_vars

\* ------------------------------------------------- chat and chatStream

Queries == {"", "hi"}

\* One answer per case: the fields a case does not read are fixed.
CallAnswers(m) ==
  { a \in Answers :
      IF a.reject
        THEN a = [NoAnswer EXCEPT !.reject = TRUE]
      ELSE IF m = "chat" \/ ~IsOk(a.status)
        THEN a.hasBody
        ELSE a.text = T_Empty /\ ~a.readFails }

\* An eager variant: the request of chatStream is sent by the call itself.
InitClientEager ==
  /\ config = <<"k">>
  /\ apiKey = "k"
  /\ method \in {"chat", "chatStream"}
  /\ query \in Queries
  /\ options \in OptionBags
  /\ server \in CallAnswers(method)
  /\ sent = IF method = "chatStream"
              THEN <<Request(apiKey, TRUE, query, options)>> ELSE <<>>
  /\ result = <<>>
  /\ err = NoError
  /\ input \in IF method = "chatStream" /\ ~server.reject /\ IsOk(server.status)
                    /\ server.hasBody
                 THEN StreamInputs ELSE {<<>>}
  /\ body = <<>>
  /\ bodyState = "none"
  /\ pending = FALSE
  /\ buffer = <<>>
  /\ lines = <<>>
  /\ out = <<>>
  /\ pc = "start"
  /\ other = NoCall

\* A call has been made on a constructed client; nothing of it has run yet
\* (chat is about to run, chatStream has returned its generator).
InitClient ==
  /\ config = <<"k">>
  /\ apiKey = "k"
  /\ method \in {"chat", "chatStream"}
  /\ query \in Queries
  /\ options \in OptionBags
  /\ server \in CallAnswers(method)
  /\ sent = <<>>
  /\ result = <<>>
  /\ err = NoError
  /\ input \in IF method = "chatStream" /\ ~server.reject /\ IsOk(server.status)
                    /\ server.hasBody
                 THEN StreamInputs ELSE {<<>>}
  /\ body = <<>>
  /\ bodyState = "none"
  /\ pending = FALSE
  /\ buffer = <<>>
  /\ lines = <<>>
  /\ out = <<>>
  /\ pc = "start"
  /\ other = NoCall

Throw(e) == [throws |-> TRUE, e |-> e, value |-> <<>>]
Return(v) == [throws |-> FALSE, e |-> NoError, value |-> <<v>>]

\* `if (!response.ok)` of chat and of chatStream: what it throws for answer a
\* whose status is not ok. response.text() may fail.
NotOkThrow(a) ==
  IF a.readFails
    THEN Throw(Raw("FetchError", "body read failed"))
    ELSE Throw(HttpError(a.status, a.text))

\* The try block of chat for the answer a.
ChatTry(a) ==
  IF a.reject THEN Throw(Raw("FetchError", "request failed"))
  ELSE IF ~IsOk(a.status) THEN NotOkThrow(a)
  ELSE IF a.readFails THEN Throw(Raw("FetchError", "body read failed"))
  ELSE LET j == JsonOf(a.text) IN
    IF ~j.ok THEN Throw(Raw("FetchError", "invalid json response body"))
    ELSE IF j.data.isNull THEN Throw(Raw("TypeError", "cannot read properties of null"))
    ELSE IF Truthy(j.data.error) THEN Throw(AppError(j.data))
    ELSE Return(j.data)

\* chat(query, options).
Chat ==
  /\ method = "chat"
  /\ pc = "start"
  /\ sent' = Append(sent, Request(apiKey, FALSE, query, options))
  /\ LET r == ChatTry(server) IN
     IF r.throws
       THEN /\ err' = Catch(r.e)
            /\ pc' = "failed"
            /\ result' = result
       ELSE /\ result' = r.value
            /\ pc' = "returned"
            /\ err' = err
  /\ UNCHANGED <<callVars, input, body, bodyState, pending, buffer, lines, out>>

\* The try block of chatStream for the answer a, up to `yield*`.
StreamTry(a) ==
  IF a.reject THEN Throw(Raw("FetchError", "request failed"))
  ELSE IF ~IsOk(a.status) THEN NotOkThrow(a)
  ELSE IF ~a.hasBody THEN Throw(NoBodyError)
  ELSE Return("body")

\* The first next() on the generator of chatStream: the request is built and
\* sent; with a body to read, parseSSE starts and awaits the first chunk.
FirstPull ==
  /\ method = "chatStream"
  /\ pc = "start"
  /\ sent' = Append(sent, Request(apiKey, TRUE, query, options))
  /\ LET r == StreamTry(server) IN
     IF r.throws
       THEN /\ err' = Catch(r.e)
            /\ pc' = "failed"
            /\ UNCHANGED <<body, bodyState>>
       ELSE /\ body' = input
            /\ bodyState' = "open"
            /\ pc' = "await"
            /\ err' = err
  /\ pending' = FALSE
  /\ buffer' = <<>>
  /\ UNCHANGED <<callVars, result, input, lines, out>>

\* A variant that processes the rest of the buffer when the loop is left by
\* an error, as it does when the stream ends.
ChunksFlushedOnError(o, buf) == o \o HandleLine(buf)

\* The chunks yielded once an error has left `for await (const chunk of body)`:
\* the statements after the loop do not run, the buffer buf is dropped.
ChunksAfterError(o, buf) == o

\* The body stream fails while parseSSE awaits a chunk (a read error, the
\* timeout): the error leaves parseSSE and is caught by chatStream.
BodyError ==
  /\ method = "chatStream"
  /\ pc = "await"
  /\ bodyState = "open"
  /\ bodyState' = "errored"
  /\ err' = Catch(Raw("FetchError", "body read failed"))
  /\ pc' = "failed"
  /\ out' = ChunksAfterError(out, buffer)
  /\ UNCHANGED <<callVars, sent, result, input, body, pending, buffer, lines>>

\* A loop over the body that does not close it when it is left early.
BodyAfterReturnLeaked(where, st) == st

\* The state of the body after a return at `where`: leaving
\* `for await (const chunk of body)` early closes the body's iterator, which
\* destroys the stream.
BodyAfterReturn(where, st) ==
  IF where = "yielded" THEN "destroyed" ELSE st

\* The consumer closes the sequence (return(), or leaving its for await loop)
\* before the first pull or at a yielded chunk.
Close ==
  /\ method = "chatStream"
  /\ pc \in {"start", "yielded", "flushYielded"}
  /\ bodyState' = BodyAfterReturn(pc, bodyState)
  /\ pc' = "closed"
  /\ lines' = <<>>
  /\ UNCHANGED <<callVars, sent, result, err, input, body, pending, buffer, out>>

NextClient ==
  \/ Chat
  \/ FirstPull
  \/ \E k \in 1..Len(body) : Arrive(k)
  \/ Resume
  \/ End
  \/ BodyError
  \/ Close

SpecClient == InitClient /\ [][NextClient]_vars

\* --------------------------------------------------------- constructor

\* The API keys a configuration may carry: none, the empty string, a key.
ConfigKeys == {<<>>, <<"">>, <<"k">>}

ConfigError == MkChatAIError(<<"API key is required">>, <<>>, <<>>)

\* A test for a missing key only: the empty string passes.
KeyAbsent(c) == c = <<>>

\* `!this.apiKey`: the key is missing (undefined) or the empty string.
KeyRejected(c) == c = <<>> \/ c[1] = ""

\* `new ChatAIClient(config)` is about to run; a call of chat or chatStream
\* with the default options follows if it returns a client.
InitNew ==
  /\ config \in ConfigKeys
  /\ apiKey = ""
  /\ method \in {"chat", "chatStream"}
  /\ query \in Queries
  /\ options = NoOptions
  /\ server \in CallAnswers(method)
  /\ sent = <<>>
  /\ result = <<>>
  /\ err = NoError
  /\ input \in IF method = "chatStream" /\ ~server.reject /\ IsOk(server.status)
                    /\ server.hasBody
                 THEN StreamInputs ELSE {<<>>}
  /\ body = <<>>
  /\ bodyState = "none"
  /\ pending = FALSE
  /\ buffer = <<>>
  /\ lines = <<>>
  /\ out = <<>>
  /\ pc = "new"
  /\ other = NoCall

\* constructor(config): throws without a key, else the client exists and the
\* call is made on it.
Construct ==
  /\ pc = "new"
  /\ IF KeyRejected(config)
       THEN /\ err' = ConfigError
            /\ pc' = "noClient"
            /\ apiKey' = apiKey
       ELSE /\ apiKey' = config[1]
            /\ pc' = "start"
            /\ err' = err
  /\ UNCHANGED <<config, method, query, options, server, sent, result,
                 input, body, bodyState, pending, buffer, lines, out, other>>

NextLife ==
  \/ Construct
  \/ NextClient

SpecLife == InitNew /\ [][NextLife]_vars

\* ------------------------------------------- two calls on one client

LineE == <<"d", "a", "t", "a", ":", SP, QUOTE, LEAD, CONT, QUOTE>>

\* The bodies of the streaming responses of two concurrent calls.
PairInputs ==
  { Join(<<Line7>>, TRUE),
    Join(<<LineE>>, TRUE),
    Join(<<LineX, Line7>>, FALSE) }

\* The values a call of chatStream owns: its request, its failure, the body of
\* its response, parseSSE's decoder, buffer and loop, and what it has yielded.
Locals ==
  [sent |-> sent, err |-> err, input |-> input, body |-> body,
   bodyState |-> bodyState, pending |-> pending, buffer |-> buffer,
   lines |-> lines, out |-> out, pc |-> pc]

\* One buffer for all calls of the client: the call that runs next finds the
\* text the suspended call left.
BufferOfClient(cur, oth) == cur

\* `let buffer = ""` is a local of parseSSE: the call that runs next has its
\* own buffer, not the buffer cur of the call that is suspended.
BufferOf(cur, oth) == oth.buffer

\* One TextDecoder for all calls of the client.
DecoderOfClient(cur, oth) == cur

\* `const decoder = new TextDecoder()` is a local of parseSSE: the call that
\* runs next has its own decoder state.
DecoderOf(cur, oth) == oth.pending

\* Two calls of chatStream("hi") have been made on one client; each has
\* returned its generator, and the transport answers both with a stream.
InitPair ==
  /\ config = <<"k">>
  /\ apiKey = "k"
  /\ method = "chatStream"
  /\ query = "hi"
  /\ options = NoOptions
  /\ server = NoAnswer
  /\ sent = <<>>
  /\ result = <<>>
  /\ err = NoError
  /\ input \in PairInputs
  /\ body = <<>>
  /\ bodyState = "none"
  /\ pending = FALSE
  /\ buffer = <<>>
  /\ lines = <<>>
  /\ out = <<>>
  /\ pc = "start"
  /\ \E i \in PairInputs :
       other = [NoCall EXCEPT !.input = i, !.pc = "start"]

\* The event loop turns from the running call to the other one: every step of
\* a call ends at an await or a yield, where the other call's fragment may
\* arrive or the other consumer may pull.
Switch ==
  /\ other.pc # "absent"
  /\ other' = Locals
  /\ sent' = other.sent
  /\ err' = other.err
  /\ input' = other.input
  /\ body' = other.body
  /\ bodyState' = other.bodyState
  /\ pending' = DecoderOf(pending, other)
  /\ buffer' = BufferOf(buffer, other)
  /\ lines' = other.lines
  /\ out' = other.out
  /\ pc' = other.pc
  /\ UNCHANGED <<config, apiKey, method, query, options, server, result>>

NextPair ==
  \/ FirstPull
  \/ \E k \in 1..Len(body) : Arrive(k)
  \/ Resume
  \/ End
  \/ Switch

SpecPair == InitPair /\ [][NextPair]_vars

\* ------------------------------------- a stream with done and error chunks

LineDone ==
  <<"d", "a", "t", "a", ":", SP, "{", QUOTE, "t", "y", "p", "e", QUOTE, ":",
    QUOTE, "d", "o", "n", "e", QUOTE, "}">>

LineError ==
  <<"d", "a", "t", "a", ":", SP, "{", QUOTE, "t", "y", "p", "e", QUOTE, ":",
    QUOTE, "e", "r", "r", "o", "r", QUOTE, "}">>

\* Bodies in which a chunk of type "done" or "error" is followed by a frame,
\* or is the last frame.
EndInputs ==
  { Join(<<LineDone, Line7>>, TRUE),
    Join(<<LineError, Line7>>, FALSE),
    Join(<<Line7, LineDone>>, FALSE),
    Join(<<LineError>>, TRUE) }

\* chatStream("hi") has returned its generator; the transport will answer
\* with a stream that neither fails nor is closed by the consumer.
InitEnd ==
  /\ config = <<"k">>
  /\ apiKey = "k"
  /\ method = "chatStream"
  /\ query = "hi"
  /\ options = NoOptions
  /\ server = NoAnswer
  /\ sent = <<>>
  /\ result = <<>>
  /\ err = NoError
  /\ input \in EndInputs
  /\ body = <<>>
  /\ bodyState = "none"
  /\ pending = FALSE
  /\ buffer = <<>>
  /\ lines = <<>>
  /\ out = <<>>
  /\ pc = "start"
  /\ other = NoCall

NextEnd ==
  \/ FirstPull
  \/ \E k \in 1..Len(body) : Arrive(k)
  \/ Resume
  \/ End

SpecEnd == InitEnd /\ [][NextEnd]_vars

\* ------------------------------------------------- what the claims speak of

IsPrefix(a, b) == Len(a) <= Len(b) /\ SubSeq(b, 1, Len(a)) = a

\* Every chunk the lines ls yield, in order.
RECURSIVE AllChunks(_)
AllChunks(ls) ==
  IF ls = <<>> THEN <<>> ELSE HandleLine(Head(ls)) \o AllChunks(Tail(ls))

\* The chunks parseSSE yields when the bytes arrive as one fragment and the
\* stream then ends.
OneShot(bytes) ==
  LET d == Decode(bytes, FALSE)
      ls == Split(d.text)
      rest == NewBuffer(ls)
  IN AllChunks(CompleteLines(ls))
       \o (IF Trim(rest) # <<>> THEN AllChunks(Split(rest)) ELSE <<>>)

\* The text a byte sequence is, as UTF-8: an incomplete character at its end
\* is a replacement character.
TextOf(bytes) ==
  LET r == DecodeFrom(bytes, FALSE, <<>>) IN
  IF r.pending THEN Append(r.text, FFFD) ELSE r.text

Terminated(bytes) == bytes = <<>> \/ bytes[Len(bytes)] = NL

\* A line that is a frame: the `data: ` prefix, then a payload that is not
\* empty after trimming and is JSON.
IsDataLine(line) == StartsWith(line, DataPrefix) /\ Trim(Slice(line)) # <<>>
IsFrame(line) == IsDataLine(line) /\ JSONParse(Trim(Slice(line))).ok
IsMalformed(line) == IsDataLine(line) /\ ~JSONParse(Trim(Slice(line))).ok

RECURSIVE FramesOf(_)
FramesOf(ls) ==
  IF ls = <<>> THEN <<>>
  ELSE (IF IsFrame(Head(ls)) THEN <<JSONParse(Trim(Slice(Head(ls)))).val>> ELSE <<>>)
         \o FramesOf(Tail(ls))

\* The byte lines of an input: the segments its newlines end, and what follows
\* the last newline.
ByteLines(bytes) == Split(bytes)

\* The input without its malformed lines (a terminated line goes with its newline).
RECURSIVE RejoinWellFormed(_)
RejoinWellFormed(segs) ==
  IF segs = <<>> THEN <<>>
  ELSE IF Len(segs) = 1
    THEN (IF IsMalformed(TextOf(segs[1])) THEN <<>> ELSE segs[1])
  ELSE (IF IsMalformed(TextOf(segs[1])) THEN <<>> ELSE Append(segs[1], NL))
         \o RejoinWellFormed(Tail(segs))

WithoutMalformed(bytes) == RejoinWellFormed(ByteLines(bytes))

\* A line without the `data: ` prefix, or with one and a payload that is empty
\* after trimming.
IsIgnorable(line) == ~IsDataLine(line)

\* The input without its ignorable lines (a terminated line goes with its newline).
RECURSIVE RejoinDataLines(_)
RejoinDataLines(segs) ==
  IF segs = <<>> THEN <<>>
  ELSE IF Len(segs) = 1
    THEN (IF IsIgnorable(TextOf(segs[1])) THEN <<>> ELSE segs[1])
  ELSE (IF IsIgnorable(TextOf(segs[1])) THEN <<>> ELSE Append(segs[1], NL))
         \o RejoinDataLines(Tail(segs))

WithoutIgnorable(bytes) == RejoinDataLines(ByteLines(bytes))

\* -------------------------------------------------------------- claims

\* C1: whatever the fragments the bytes arrive in, the chunks yielded so far
\* are a prefix of, and at the end of the stream equal to, the chunks yielded
\* when the whole input arrives as one fragment.
C1_FragmentIndependence ==
  /\ IsPrefix(out, OneShot(input))
  /\ pc = "done" => out = OneShot(input)

\* A fragment ended between the two bytes of a character, inside a JSON
\* payload, after a chunk of an earlier line was yielded.
C1_Witness ==
  /\ pc = "await"
  /\ pending
  /\ Len(out) = 1
  /\ body # <<>>
  /\ Head(body) = CONT
  /\ StartsWith(buffer, DataPrefix)

\* C2: an input of newline-terminated lines yields exactly the parsed payloads
\* of its frames, one chunk each, in the order of the lines.
C2_FramesInOrder ==
  (pc = "done" /\ Terminated(input))
    => out = FramesOf(CompleteLines(Split(TextOf(input))))

C2_Witness ==
  /\ pc = "done"
  /\ Terminated(input)
  /\ Len(out) = 2
  /\ out[1] # out[2]

\* C3: the output is the output for the same input with its malformed lines
\* removed.
C3_MalformedSkipped ==
  pc = "done" => out = OneShot(WithoutMalformed(input))

\* C4: an input whose last line lacks the newline yields what the same input
\* with the newline added yields.
C4_FlushLikeTerminated ==
  (pc = "done" /\ ~Terminated(input)) => out = OneShot(Append(input, NL))

\* The call has run: chat has returned or thrown, the generator of chatStream
\* has been pulled at least once.
Ran == pc \notin {"start", "closed"} \/ sent # <<>>

Non2xx(status) == status < 200 \/ status > 299

IsHttpError(e, status, text) ==
  /\ e.name = "ChatAIError"
  /\ e.message = <<"API request failed: ", ToString(status), " - ", text>>
  /\ e.status = <<status>>
  /\ e.response = <<text>>

IsNetworkError(e) ==
  /\ e.name = "ChatAIError"
  /\ Len(e.message) = 2
  /\ e.message[1] = "Network error: "
  /\ e.status = <<>>
  /\ e.response = <<>>

NothingReturned == result = <<>> /\ out = <<>>

\* The bytes of the body that have been delivered to parseSSE.
Delivered == SubSeq(input, 1, Len(input) - Len(body))

\* C5 as stated: a non-2xx answer always fails the call with the HTTP error of
\* that status and body text, and nothing is returned.
C5_Original ==
  (Ran /\ ~server.reject /\ Non2xx(server.status))
    => /\ pc = "failed"
       /\ IsHttpError(err, server.status, server.text)
       /\ NothingReturned

\* C5, amended: a non-2xx answer always fails the call and nothing is
\* returned; the failure is the HTTP error of that status and body text when
\* the body text was read, and a network error without status when reading the
\* body failed.
C5_Non2xxFails ==
  (Ran /\ ~server.reject /\ Non2xx(server.status))
    => /\ pc = "failed"
       /\ NothingReturned
       /\ ~server.readFails => IsHttpError(err, server.status, server.text)
       /\ server.readFails => IsNetworkError(err)

\* chatStream got a 500 whose body is a well-formed success payload.
C5_Witness ==
  /\ method = "chatStream"
  /\ pc = "failed"
  /\ server.status = 500
  /\ server.text = T_Hello
  /\ err.status = <<500>>
  /\ err.response = <<T_Hello>>

\* C6: in chat, a 2xx payload with the error flag true is never returned, the
\* call fails with an application error whose message carries the payload's
\* response text; a 2xx payload with the error flag false is returned as it is.
C6_ErrorFlag ==
  (method = "chat" /\ Ran /\ ~server.reject /\ ~Non2xx(server.status)
     /\ ~server.readFails /\ JsonOf(server.text).ok)
    => LET data == JsonOf(server.text).data IN
       /\ data.error = Bool(TRUE)
            => /\ pc = "failed"
               /\ result = <<>>
               /\ err.name = "ChatAIError"
               /\ err.status = <<>>
               /\ err.message[1] = "API returned error: "
               /\ data.response.t = "string" => err.message[2] = data.response.s
       /\ data.error = Bool(FALSE)
            => /\ pc = "returned"
               /\ result = <<data>>
               /\ err = NoError

C6_Witness ==
  /\ method = "chat"
  /\ pc = "failed"
  /\ server.status = 200
  /\ server.text = T_RateLimited
  /\ err.message = <<"API returned error: ", "rate limited">>

\* C7: a failure before any status is known (fetch rejects) is surfaced by
\* chat and by chatStream as a network error without status.
C7_TransportError ==
  (Ran /\ server.reject)
    => /\ pc = "failed"
       /\ IsNetworkError(err)
       /\ NothingReturned

C7_Witness ==
  /\ method = "chatStream"
  /\ server.reject
  /\ pc = "failed"
  /\ err.message = <<"Network error: ", "request failed">>

\* C8: in chatStream a success status without a body fails with the "no
\* response body" error, which has no status and is not wrapped as a network
\* error; no chunk is yielded.
C8_NoBody ==
  (method = "chatStream" /\ Ran /\ ~server.reject /\ ~Non2xx(server.status)
     /\ ~server.hasBody)
    => /\ pc = "failed"
       /\ err.name = "ChatAIError"
       /\ err.message = <<"No response body received">>
       /\ err.status = <<>>
       /\ out = <<>>

C8_Witness ==
  /\ method = "chatStream"
  /\ ~server.hasBody
  /\ server.status = 299
  /\ pc = "failed"
  /\ err = NoBodyError

\* C9: once the sequence of chatStream is closed by the consumer, exhausted or
\* failed, the body stream is not held open, and closing raises no error.
C9_Released ==
  method = "chatStream"
    => /\ pc \in {"closed", "done", "failed"} => bodyState # "open"
       /\ pc = "closed" => err = NoError

\* The consumer closed the sequence after the first chunk, with bytes of the
\* body still to come.
C9_Witness ==
  /\ pc = "closed"
  /\ Len(out) = 1
  /\ body # <<>>
  /\ bodyState = "destroyed"
  /\ err = NoError

\* C10: the serialized body of every request holds exactly `query`, `stream`
\* and the fields the options supplied, none of them omitted and no other.
C10_ExactFields ==
  \A i \in 1..Len(sent) :
    DOMAIN sent[i].body = {"query", "stream"} \cup SuppliedFields(options)

\* C11: constructing with a missing or empty key fails at once with the
\* configuration error, no client exists, and no request is ever sent with an
\* empty key.
C11_KeyRequired ==
  /\ ((config = <<>> \/ config = <<"">>) /\ pc # "new")
       => /\ pc = "noClient"
          /\ err = ConfigError
          /\ sent = <<>>
          /\ NothingReturned
  /\ \A i \in 1..Len(sent) :
       /\ sent[i].url[2] # ""
       /\ sent[i].body["apikey"] # Str("")

\* The constructor was given the empty string and threw.
C11_Witness ==
  /\ config = <<"">>
  /\ pc = "noClient"
  /\ err = ConfigError

\* C12: with two calls of chatStream interleaved in any way, each call yields
\* a prefix of, and at its end exactly, the chunks it yields alone on its own
\* bytes.
C12_Isolation ==
  /\ IsPrefix(out, OneShot(input))
  /\ pc = "done" => out = OneShot(input)
  /\ IsPrefix(other.out, OneShot(other.input))
  /\ other.pc = "done" => other.out = OneShot(other.input)

\* One call has finished with a chunk while the other, on other bytes, is
\* suspended in mid-line with text in its buffer.
C12_Witness ==
  /\ pc = "done"
  /\ out # <<>>
  /\ other.pc = "await"
  /\ other.buffer # <<>>
  /\ other.body # <<>>
  /\ other.input # input

\* C14: two runs of parseSSE over the same bytes, whatever the fragments of
\* each and however the runs are interleaved, end with the same chunks.
C14_SameBytesSameChunks ==
  (input = other.input /\ pc = "done" /\ other.pc = "done")
    => out = other.out

\* Both runs over the bytes of the line with a two-byte character have ended,
\* each with its chunk.
C14_Witness ==
  /\ input = Join(<<LineE>>, TRUE)
  /\ other.input = input
  /\ pc = "done"
  /\ other.pc = "done"
  /\ Len(out) = 1
  /\ Len(other.out) = 1

\* C13: a failed call of chat or chatStream surfaces a ChatAIError; an error
\* that was thrown as a ChatAIError inside the call is the error surfaced, not
\* a network error around it; and a surfaced error has a status only if the
\* transport answered with a non-2xx status, which is then that status.
C13_StructuredErrors ==
  pc = "failed"
    => /\ err.name = "ChatAIError"
       /\ err.status # <<>>
            => /\ ~server.reject
               /\ Non2xx(server.status)
               /\ err.status = <<server.status>>
       /\ LET r == IF method = "chat" THEN ChatTry(server) ELSE StreamTry(server)
          IN (r.throws /\ r.e.name = "ChatAIError")
               => /\ err = r.e
                  /\ ~IsNetworkError(err)

\* chat failed on a 2xx payload with a truthy error field and no response
\* text: the application error is surfaced as thrown, without a status.
C13_Witness ==
  /\ method = "chat"
  /\ pc = "failed"
  /\ server.status = 299
  /\ server.text = T_ErrorOnly
  /\ err = AppError(JsonOf(T_ErrorOnly).data)
  /\ err.status = <<>>

\* C15: the chunks yielded at the end of the stream are the chunks yielded
\* for the input without its lines that lack the `data: ` prefix or have an
\* empty payload; so far as the stream has run they are a prefix of these.
C15_IgnorableLines ==
  /\ IsPrefix(out, OneShot(WithoutIgnorable(input)))
  /\ pc = "done" => out = OneShot(WithoutIgnorable(input))

\* A blank line and a `data:` line without the space stood between two frames,
\* or before one, and the frames around them were yielded.
C15_Witness ==
  /\ pc = "done"
  /\ out # <<>>
  /\ WithoutIgnorable(input) # input
  /\ WithoutIgnorable(input) # <<>>
  /\ \E i \in 1..Len(ByteLines(input)) :
       ByteLines(input)[i] = <<"d", "a", "t", "a", ":", "7">>

\* C16: every field the options supply is in the serialized body of every
\* request with the value supplied, whatever the value.
C16_PassThrough ==
  \A i \in 1..Len(sent) :
    \A f \in SuppliedFields(options) :
      /\ f \in DOMAIN sent[i].body
      /\ sent[i].body[f] = options[f]

\* C17: when the body stream of chatStream has failed, the error surfaced is a
\* network error without status, and the chunks yielded are those of the
\* lines that were complete in the bytes delivered before the failure, in
\* order: the text after the last newline has yielded nothing.
C17_MidStreamFailure ==
  (method = "chatStream" /\ bodyState = "errored")
    => /\ pc = "failed"
       /\ IsNetworkError(err)
       /\ out = AllChunks(CompleteLines(Split(Decode(Delivered, FALSE).text)))
       /\ IsPrefix(out, OneShot(input))

\* The stream failed after one chunk was yielded, with a whole frame in the
\* buffer that no newline had ended.
C17_Witness ==
  /\ method = "chatStream"
  /\ pc = "failed"
  /\ bodyState = "errored"
  /\ Len(out) = 1
  /\ buffer = Line7
  /\ body = <<>>

\* C18: the generator of chatStream is done only when the source has ended;
\* once the source has ended it is done, or at the yield of the last flushed
\* chunk with nothing left to yield; the chunks are all the frames of the
\* input, those after a chunk of type "done" or "error" included; and no
\* chunk raises a failure.
C18_EndsWithSource ==
  /\ pc = "done" => (bodyState = "ended" /\ body = <<>>)
  /\ bodyState = "ended"
       => /\ pc \in {"done", "flushYielded"}
          /\ pc = "flushYielded" => ~Drain(lines).found
  /\ IsPrefix(out, FramesOf(Split(TextOf(input))))
  /\ (bodyState = "ended" /\ lines = <<>>) => out = FramesOf(Split(TextOf(input)))
  /\ err = NoError
  /\ pc # "failed"

\* The stream ended after a chunk of type "done" and a frame after it, and
\* both were yielded.
C18_Witness ==
  /\ pc = "done"
  /\ input = Join(<<LineDone, Line7>>, TRUE)
  /\ Len(out) = 2
  /\ out[1] = JSONParse(Trim(Slice(LineDone))).val
  /\ out[2] = JSONParse(Trim(Slice(Line7))).val

\* C19: the call of chatStream sends no request and raises no failure; the
\* first pull sends the one request of the sequence, and no later step sends
\* another; and when the request fails (fetch rejects, a non-2xx status, no
\* body) the first pull is the step that fails, before any chunk.
C19_LazyStart ==
  method = "chatStream"
    => /\ pc = "start" => (sent = <<>> /\ err = NoError /\ bodyState = "none")
       /\ Len(sent) = (IF pc = "start" \/ (pc = "closed" /\ bodyState = "none")
                         THEN 0 ELSE 1)
       /\ (sent # <<>>
             /\ (server.reject \/ Non2xx(server.status) \/ ~server.hasBody))
            => /\ pc = "failed"
               /\ err.name = "ChatAIError"
               /\ bodyState = "none"
               /\ out = <<>>

\* Several pulls have followed the first, two chunks are yielded, and one
\* request has been sent.
C19_Witness ==
  /\ method = "chatStream"
  /\ pc = "yielded"
  /\ Len(out) = 2
  /\ Len(sent) = 1
  /\ sent[1].accept = "text/event-stream"

\* C20: in chat, a 2xx answer whose body is read but is not JSON fails the
\* call with a network error, without status and without the raw payload, of
\* the kind a rejected fetch gives; nothing is returned.
C20_UnparsableBody ==
  (method = "chat" /\ Ran /\ ~server.reject /\ ~Non2xx(server.status)
     /\ ~server.readFails /\ server.text \in {T_Exploded, T_Empty})
    => /\ pc = "failed"
       /\ IsNetworkError(err)
       /\ err.message[2] = "invalid json response body"
       /\ err.name = Catch(Raw("FetchError", "request failed")).name
       /\ err.status = Catch(Raw("FetchError", "request failed")).status
       /\ err.response = Catch(Raw("FetchError", "request failed")).response
       /\ result = <<>>

\* chat got status 200 with a body that is not JSON and failed.
C20_Witness ==
  /\ method = "chat"
  /\ server.status = 200
  /\ ~server.reject
  /\ ~server.readFails
  /\ server.text = T_Exploded
  /\ pc = "failed"
  /\ err.message = <<"Network error: ", "invalid json response body">>

====
